---------------------------- MODULE Spec2Model ----------------------------
(***************************************************************************)
(* A model of src/synthetic_data.py: class Gaussian, whose four methods    *)
(* generate_example, sample_cov_matrix, compute_gaussian_mi and            *)
(* estimate_mvn_mi draw from numpy's module-level random stream.           *)
(*                                                                         *)
(* Numbers are exact rationals [n, d].  A value -0.5*log(q) is kept as its *)
(* argument q (a finite value), or as "inf" (log of 0) or "nan" (log of a  *)
(* negative number).  A square root that cannot be taken exactly is kept   *)
(* as its radicand, so an entry of a generated data matrix is the formal   *)
(* sum the code computes.  numpy's generator and the LAPACK eigensolver    *)
(* are external: the generator is a counter-based stream of period         *)
(* StreamPeriod, the eigensolver returns an exact orthonormal basis that   *)
(* is a function of its input.                                             *)
(*                                                                         *)
(* Two processes are modelled: `run` is the program, `ref` is a second run *)
(* of the same program that is started with the same seed and replays      *)
(* every call of `run`; the claims about reproducibility compare the two.  *)
(***************************************************************************)
EXTENDS Integers, Sequences, FiniteSets, TLC

\* ------------------------------------------------------------- bounds
MaxDim == 2           \* largest dim passed to a sampling call
MaxSamples == 2       \* largest n_samples passed to generate_example
MaxInstances == 2     \* Gaussian objects constructed in one process
StreamPeriod == 10    \* states of the model's random stream
MaxTries == 6         \* draws counted in one run of the rotation-matrix loop

\* ---------------------------------------------------------- rationals
Abs(x) == IF x < 0 THEN -x ELSE x

RECURSIVE GCD(_, _)
GCD(a, b) == IF b = 0 THEN a ELSE GCD(b, a % b)

Rat(n, d) ==
  LET g == GCD(Abs(n), Abs(d))
      s == IF d < 0 THEN -1 ELSE 1
  IN [n |-> s * (n \div g), d |-> s * (d \div g)]

RInt(k) == [n |-> k, d |-> 1]
RAdd(a, b) == Rat(a.n * b.d + b.n * a.d, a.d * b.d)
RNeg(a) == [n |-> -a.n, d |-> a.d]
RSub(a, b) == RAdd(a, RNeg(b))
RMul(a, b) == Rat(a.n * b.n, a.d * b.d)
RDiv(a, b) == Rat(a.n * b.d, a.d * b.n)
RLess(a, b) == a.n * b.d < b.n * a.d
RLeq(a, b) == a.n * b.d <= b.n * a.d
RZero == RInt(0)
ROne == RInt(1)

RECURSIVE RSum(_)
RSum(seq) == IF seq = <<>> THEN RZero ELSE RAdd(Head(seq), RSum(Tail(seq)))

RECURSIVE RProd(_)
RProd(seq) == IF seq = <<>> THEN ROne ELSE RMul(Head(seq), RProd(Tail(seq)))

\* ----------------------------------------------------------- matrices
\* A matrix is a sequence of rows; a (0, k) array is <<>>.
Rows(m) == Len(m)
Cols(m) == IF Len(m) = 0 THEN 0 ELSE Len(m[1])
Shape(m) == <<Rows(m), Cols(m)>>

\* m.T of a 2-d array with r rows and c columns
Transpose(m, r, c) == [j \in 1..c |-> [i \in 1..r |-> m[i][j]]]

\* np.eye(n)
Eye(n) == [i \in 1..n |-> [j \in 1..n |-> IF i = j THEN ROne ELSE RZero]]

\* np.diag(v)
Diag(v) == [i \in 1..Len(v) |-> [j \in 1..Len(v) |-> IF i = j THEN v[i] ELSE RZero]]

\* a @ b
MatMul(a, b) ==
  [i \in 1..Rows(a) |-> [j \in 1..Cols(b) |->
      RSum([k \in 1..Rows(b) |-> RMul(a[i][k], b[k][j])])]]

MatSub(a, b) == [i \in 1..Rows(a) |-> [j \in 1..Cols(a) |-> RSub(a[i][j], b[i][j])]]

\* a[r0 : r1, c0 : c1] with 1-based inclusive bounds
Block(a, r0, r1, c0, c1) ==
  [i \in 1..(r1 - r0 + 1) |-> [j \in 1..(c1 - c0 + 1) |-> a[r0 + i - 1][c0 + j - 1]]]

\* the matrix without row i and column j
Minor(a, i, j) ==
  [p \in 1..(Rows(a) - 1) |-> [q \in 1..(Rows(a) - 1) |->
      a[IF p < i THEN p ELSE p + 1][IF q < j THEN q ELSE q + 1]]]

\* linalg.det: the determinant, by expansion along the first row
RECURSIVE Det(_)
Det(a) ==
  IF Rows(a) = 0 THEN ROne
  ELSE IF Rows(a) = 1 THEN a[1][1]
  ELSE RSum([j \in 1..Rows(a) |->
         RMul(IF j % 2 = 1 THEN a[1][j] ELSE RNeg(a[1][j]), Det(Minor(a, 1, j)))])

\* the inverse of a non-singular matrix: adjugate over determinant
Inverse(a) ==
  LET d == Det(a)
  IN [i \in 1..Rows(a) |-> [j \in 1..Rows(a) |->
        RDiv(IF (i + j) % 2 = 0 THEN Det(Minor(a, j, i)) ELSE RNeg(Det(Minor(a, j, i))), d)]]

IntMatrix(m) == [i \in 1..Len(m) |-> [j \in 1..Len(m[i]) |-> RInt(m[i][j])]]


\* ------------------------------------------------- numpy's random stream
\* np.random keeps one generator per process (rng[Global]); a draw advances
\* it by one state and its value is a function of the state reached.
ULevels == 2          \* values a uniform variate on [0, 1) takes: k / ULevels
Seeds == {0, 1}
EntropyStates == {2, 7}

SeedState(seed) == (5 * seed + 3) % StreamPeriod
StateAfter(s, k) == (s + k) % StreamPeriod
Bits(s) == 3 * s * s + (s \div 2)
Uniform01(s) == Rat(Bits(s) % ULevels, ULevels)
StdNormal(s) == ((Bits(s) \div 2) % 3) - 1

\* (variant: the seed is stored but the generator is not reseeded)
NpRandomSeedIgnored(old, seed) == old

\* np.random.seed(seed) on a generator in state old
NpRandomSeed(old, seed) == SeedState(seed)

\* np.random.uniform(low, high, size): low + (high - low) * u, u in [0, 1)
UniformDraw(s, low, high, size) ==
  [vals |-> [i \in 1..size |->
               RAdd(low, RMul(RSub(high, low), Uniform01(StateAfter(s, i))))],
   s |-> StateAfter(s, size)]

\* np.random.normal(loc=0, scale=1, size=(r, c)), filled row by row
NormalDraw(s, r, c) ==
  [vals |-> [i \in 1..r |-> [j \in 1..c |-> StdNormal(StateAfter(s, (i - 1) * c + j))]],
   s |-> StateAfter(s, r * c)]

\* ------------------------------------------------------- the eigensolver
\* linalg.eigh(A) for A = M @ M.T.  Its eigenvector matrix is orthonormal
\* and a function of A: a signed permutation matrix picked by a hash of A.
EighHash(a) ==
  LET RECURSIVE Acc(_, _)
      Acc(i, j) == IF i > Rows(a) THEN 0
                   ELSE IF j > Rows(a) THEN Acc(i + 1, 1)
                   ELSE (i + 2 * j) * a[i][j].n + Acc(i, j + 1)
  IN Acc(1, 1)

EighVectors(a) ==
  LET n == Rows(a)
      h == EighHash(a)
  IN [i \in 1..n |-> [k \in 1..n |->
        IF i = ((k - 1 + h) % n) + 1
          THEN (IF ((h \div n) + k) % 2 = 0 THEN ROne ELSE RNeg(ROne))
          ELSE RZero]]

\* The sign of dummy_spectrum.min().  M @ M.T is positive semi-definite, so
\* the exact minimum is > 0 unless M is singular; for a singular M of size
\* two or more the computed minimum is 0 up to rounding, and a solver that
\* rounds down reports it negative.
EighMinSign(a, roundsDown) ==
  IF RLess(RZero, Det(a)) THEN 1
  ELSE IF Rows(a) >= 2 /\ roundsDown THEN -1
  ELSE 0

\* ---------------------------------------------------------- -0.5 * log
Half == Rat(1, 2)
Finite(q) == [kind |-> "finite", arg |-> q]
PosInf == [kind |-> "inf", arg |-> RZero]
NaN == [kind |-> "nan", arg |-> RZero]

\* -0.5 * np.sum(np.log(xs)): nan if some x < 0, else +inf if some x = 0,
\* else the finite value -0.5 * log(product of xs)
NegHalfSumLog(xs) ==
  IF \E i \in 1..Len(xs) : RLess(xs[i], RZero) THEN NaN
  ELSE IF \E i \in 1..Len(xs) : xs[i] = RZero THEN PosInf
  ELSE Finite(RProd(xs))

\* MI >= 0 for a value -0.5 * log(q): q <= 1, or +inf
NonNegative(mi) ==
  mi.kind = "inf" \/ (mi.kind = "finite" /\ RLeq(mi.arg, ROne))

\* ------------------------------------------------------ process state
\* A process: rng, the generator state per owner (np.random's module-level
\* generator is owner Global; an object of the class would be owner 1, 2,
\* ...), objs, the Gaussian objects constructed so far, pc and fr, the
\* position and the locals of the call in progress.
Global == 0
NoGenerator == -1
None == "None"
NoFrame == [op |-> "none"]
NoOutput == [op |-> "none"]

\* (variant: every object draws from a generator of its own)
GeneratorOfSelf(self) == self

\* The generator a method of object self draws from: every draw is written
\* np.random.<...>, the module-level generator, whatever self is.
GeneratorOf(self) == Global

FreshProcess(entropy) ==
  [rng |-> [o \in 0..MaxInstances |-> IF o = Global THEN entropy ELSE NoGenerator],
   objs |-> <<>>, pc |-> "idle", fr |-> NoFrame]

\* Gaussian(seed): self.seed = np.random.seed(seed), which returns None
GaussianInit(st, seed) ==
  LET self == Len(st.objs) + 1
      g == GeneratorOf(self)
  IN [st EXCEPT !.rng = [@ EXCEPT ![g] = NpRandomSeed(@, seed)],
                !.objs = Append(@, [seed |-> None])]

\* A call that raised: nothing is returned to the caller.
Raised(call, exc, line) ==
  [op |-> call.op, self |-> call.self, args |-> call.args, entry |-> call.entry,
   status |-> "error", exc |-> exc, line |-> line]

Returned(call, value, ghost) ==
  [op |-> call.op, self |-> call.self, args |-> call.args, entry |-> call.entry,
   status |-> "ok", value |-> value, ghost |-> ghost]

\* ---------------------------------------------------- sample_cov_matrix
\* np.sort(v): ascending, by insertion
RECURSIVE NpSort(_)
NpSort(v) ==
  IF v = <<>> THEN <<>>
  ELSE LET rest == NpSort(Tail(v))
           x == Head(v)
           k == Cardinality({i \in 1..Len(rest) : RLess(rest[i], x)})
       IN SubSeq(rest, 1, k) \o <<x>> \o SubSeq(rest, k + 1, Len(rest))

Negated(v) == [i \in 1..Len(v) |-> RNeg(v[i])]

\* (variant: np.sort(spectrum), ascending)
SortSpectrumAscending(v) == NpSort(v)

\* line 123: spectrum = -np.sort(-spectrum)
SortSpectrum(v) == Negated(NpSort(Negated(v)))

\* (variant: while mini <= 0)
LoopTestOrZero(mini) == mini <= 0

\* line 128: the loop test
LoopTest(mini) == mini < 0

\* line 135: eigenvectors @ np.diag(spectrum) @ eigenvectors.T
CovMatrix(eigenvectors, spectrum) ==
  MatMul(MatMul(eigenvectors, Diag(spectrum)),
         Transpose(eigenvectors, Rows(eigenvectors), Rows(eigenvectors)))

\* lines 122-127: the spectrum is drawn and sorted, mini = -1 and
\* eigenvectors = np.eye(dim); the frame then stands at the loop test.
\* The frame also records, of the loop: M, the last matrix drawn, after, the
\* stream state that draw left, tries, the draws made (counted up to
\* MaxTries + 1), and nonneg, the draws whose minimum was not negative
\* (counted up to 2).
\* A negative dim makes np.random.uniform raise before it draws.
SampleCovEnter(st, call, outer, dim, cond) ==
  LET g == GeneratorOf(call.self)
      u == UniformDraw(st.rng[g], ROne, RInt(cond), dim)
  IN IF dim < 0
       THEN [st |-> [st EXCEPT !.pc = "idle", !.fr = NoFrame],
             out |-> Raised(call, "ValueError", 122)]
       ELSE [st |-> [st EXCEPT !.rng = [@ EXCEPT ![g] = u.s],
                               !.pc = "loop",
                               !.fr = [call |-> call, outer |-> outer, dim |-> dim,
                                       spectrum |-> SortSpectrum(u.vals),
                                       mini |-> -1, eigenvectors |-> Eye(dim),
                                       M |-> <<>>, after |-> u.s, tries |-> 0, nonneg |-> 0]],
             out |-> NoOutput]

\* lines 129-132: one pass of the loop body.  With dim = 0 the minimum of
\* an empty spectrum does not exist and the call raises (nothing was drawn).
SampleCovLoop(st, roundsDown) ==
  LET fr == st.fr
      g == GeneratorOf(fr.call.self)
      m == NormalDraw(st.rng[g], fr.dim, fr.dim)
      mmt == MatMul(IntMatrix(m.vals), Transpose(IntMatrix(m.vals), fr.dim, fr.dim))
      mini == EighMinSign(mmt, roundsDown)
  IN IF fr.dim = 0
       THEN [st |-> [st EXCEPT !.pc = "idle", !.fr = NoFrame],
             out |-> Raised(fr.call, "ValueError", 132)]
       ELSE [st |-> [st EXCEPT !.rng = [@ EXCEPT ![g] = m.s],
                               !.fr = [fr EXCEPT !.M = m.vals,
                                                 !.eigenvectors = EighVectors(mmt),
                                                 !.mini = mini,
                                                 !.after = m.s,
                                                 !.tries = IF @ <= MaxTries THEN @ + 1 ELSE @,
                                                 !.nonneg = IF mini >= 0 /\ @ < 2
                                                              THEN @ + 1 ELSE @]],
             out |-> NoOutput]

\* lines 135-137: what sample_cov_matrix returns once the loop is left,
\* with the accepted draw and the loop's counters for the record
SampleCovReturn(fr) ==
  [cov_matrix |-> CovMatrix(fr.eigenvectors, fr.spectrum),
   spectrum |-> fr.spectrum,
   eigenvectors |-> fr.eigenvectors,
   M |-> fr.M, mini |-> fr.mini, after |-> fr.after, tries |-> fr.tries,
   nonneg |-> fr.nonneg]

\* ----------------------------------------------------- generate_example
\* (variant: the sign is added to the magnitude instead of multiplied)
RhozAdded(mag, sgn) ==
  [i \in 1..Len(mag) |->
     RAdd(mag[i], RMul(RSub(IF RLess(sgn[i], Half) THEN ROne ELSE RZero, Half), RInt(2)))]

\* line 78: rhoz * ((u < 0.5) - 0.5) * 2
Rhoz(mag, sgn) ==
  [i \in 1..Len(mag) |->
     RMul(RMul(mag[i], RSub(IF RLess(sgn[i], Half) THEN ROne ELSE RZero, Half)), RInt(2))]

\* (variant: +0.5 * np.sum(np.log(1 - rhoz**2)), which is -0.5 * log(1 / q))
TrueMIWrongSign(rhoz) ==
  LET xs == [i \in 1..Len(rhoz) |-> RSub(ROne, RMul(rhoz[i], rhoz[i]))]
  IN IF \E i \in 1..Len(xs) : RLess(xs[i], RZero) THEN NaN
     ELSE IF \E i \in 1..Len(xs) : xs[i] = RZero THEN [kind |-> "neginf", arg |-> RZero]
     ELSE Finite(RDiv(ROne, RProd(xs)))

\* line 81: MI = -0.5 * np.sum(np.log(1 - rhoz**2))
TrueMI(rhoz) ==
  NegHalfSumLog([i \in 1..Len(rhoz) |-> RSub(ROne, RMul(rhoz[i], rhoz[i]))])

\* lines 85-86: zy = (rhoz.T * zx.T + np.sqrt(1 - rhoz.T**2) * noise).T with
\* noise of shape (n_samples, dim).  An entry lin + sqrt(rad) * noise is kept
\* as the record of its three parts.
LatentY(rhoz, zx, noise, dim, n) ==
  LET zxT == Transpose(zx, dim, n)
      zyT == [j \in 1..n |-> [k \in 1..dim |->
                [lin |-> RMul(rhoz[k], RInt(zxT[j][k])),
                 rad |-> RSub(ROne, RMul(rhoz[k], rhoz[k])),
                 noise |-> noise[j][k]]]]
  IN Transpose(zyT, n, dim)

\* lines 89, 92: eigenvectors @ np.diag(np.sqrt(spectrum)) @ z.  Entry (i, j)
\* is the sum over k of eigenvectors[i][k] * sqrt(spectrum[k]) * z[k][j],
\* kept as the sequence of its terms.
Colour(eigenvectors, spectrum, z) ==
  [i \in 1..Rows(eigenvectors) |-> [j \in 1..Cols(z) |->
     [k \in 1..Len(spectrum) |->
        [v |-> eigenvectors[i][k], rad |-> spectrum[k], z |-> z[k][j]]]]]

\* lines 77-88: the correlations, the exact MI and the latent samples, then
\* the first call of sample_cov_matrix up to its loop.  np.random raises on
\* a negative size: at line 77 for dim (nothing drawn yet), at line 84 for
\* n_samples (the 2 * dim uniform variates already drawn).
GenerateExampleEnter(st, call) ==
  LET a == call.args
      g == GeneratorOf(call.self)
      mag == UniformDraw(st.rng[g], a.rhoz_lims[1], a.rhoz_lims[2], a.dim)
      sgn == UniformDraw(mag.s, RZero, ROne, a.dim)
      rhoz == Rhoz(mag.vals, sgn.vals)
      zx == NormalDraw(sgn.s, a.dim, a.n_samples)
      noise == NormalDraw(zx.s, a.n_samples, a.dim)
      outer == [phase |-> "x", rhoz |-> rhoz, MI |-> TrueMI(rhoz), zx |-> zx.vals,
                zy |-> LatentY(rhoz, zx.vals, noise.vals, a.dim, a.n_samples)]
  IN IF a.dim < 0
       THEN [st |-> st, out |-> Raised(call, "ValueError", 77)]
     ELSE IF a.n_samples < 0
       THEN [st |-> [st EXCEPT !.rng = [@ EXCEPT ![g] = sgn.s]],
             out |-> Raised(call, "ValueError", 84)]
     ELSE SampleCovEnter([st EXCEPT !.rng = [@ EXCEPT ![g] = noise.s]],
                         call, outer, a.dim, a.cond[1])

\* sample_cov_matrix called on its own
SampleCovMatrixEnter(st, call) ==
  SampleCovEnter(st, call, [phase |-> "only"], call.args.dim, call.args.cond)

\* The loop is left (line 128 false): sample_cov_matrix returns, and inside
\* generate_example the caller goes on: lines 89-91 after the first call,
\* lines 92-96 after the second.
SampleCovExit(st) ==
  LET fr == st.fr
      o == fr.outer
      r == SampleCovReturn(fr)
      idle == [st EXCEPT !.pc = "idle", !.fr = NoFrame]
  IN IF o.phase = "only"
       THEN [st |-> idle,
             out |-> Returned(fr.call,
                       [cov_matrix |-> r.cov_matrix, spectrum |-> r.spectrum,
                        eigenvectors |-> r.eigenvectors],
                       [scm |-> r])]
     ELSE IF o.phase = "x"
       THEN SampleCovEnter(st, fr.call,
              [phase |-> "y", rhoz |-> o.rhoz, MI |-> o.MI, zx |-> o.zx, zy |-> o.zy,
               x |-> r, data_x |-> Colour(r.eigenvectors, r.spectrum, o.zx)],
              fr.dim, fr.call.args.cond[2])
     ELSE [st |-> idle,
           out |-> Returned(fr.call,
                     [data_x |-> o.data_x,
                      data_y |-> Colour(r.eigenvectors, r.spectrum, o.zy),
                      MI |-> o.MI,
                      gen_params |-> [sigma_xx |-> o.x.cov_matrix,
                                      sigma_yy |-> r.cov_matrix,
                                      rhoz |-> o.rhoz]],
                     [x |-> o.x, y |-> r, zx |-> o.zx, zy |-> o.zy])]

\* --------------------------------------------------- compute_gaussian_mi
\* An array argument: its entries, and whether they are all finite.
Array(m) == [finite |-> TRUE, m |-> m]
NaNArray(n) == [finite |-> FALSE, m |-> [i \in 1..n |-> [j \in 1..n |-> RZero]]]

\* (variant: Byx = linalg.inv(sigma_yy) @ sigma_xy, the transpose forgotten)
GaussianMINoTranspose(cov, dim) ==
  LET sigma_xx == Block(cov.m, 1, dim, 1, dim)
      sigma_xy == Block(cov.m, 1, dim, dim + 1, 2 * dim)
      sigma_yy == Block(cov.m, dim + 1, 2 * dim, dim + 1, 2 * dim)
      Bxy == MatMul(Inverse(sigma_xx), sigma_xy)
      Byx == MatMul(Inverse(sigma_yy), sigma_xy)
  IN IF ~cov.finite THEN [status |-> "error", exc |-> "ValueError", line |-> 168]
     ELSE IF Det(sigma_xx) = RZero
       THEN [status |-> "error", exc |-> "LinAlgError", line |-> 168]
     ELSE IF Det(sigma_yy) = RZero
       THEN [status |-> "error", exc |-> "LinAlgError", line |-> 169]
     ELSE [status |-> "ok",
           MI |-> NegHalfSumLog(<<Det(MatSub(Eye(dim), MatMul(Bxy, Byx)))>>)]

\* lines 164-172.  linalg.inv raises ValueError on a non-finite array and
\* LinAlgError on a singular one; np.log of a number <= 0 raises nothing.
GaussianMI(cov, dim) ==
  LET sigma_xx == Block(cov.m, 1, dim, 1, dim)
      sigma_xy == Block(cov.m, 1, dim, dim + 1, 2 * dim)
      sigma_yy == Block(cov.m, dim + 1, 2 * dim, dim + 1, 2 * dim)
      Bxy == MatMul(Inverse(sigma_xx), sigma_xy)
      Byx == MatMul(Inverse(sigma_yy), Transpose(sigma_xy, dim, dim))
  IN IF ~cov.finite THEN [status |-> "error", exc |-> "ValueError", line |-> 168]
     ELSE IF Det(sigma_xx) = RZero
       THEN [status |-> "error", exc |-> "LinAlgError", line |-> 168]
     ELSE IF Det(sigma_yy) = RZero
       THEN [status |-> "error", exc |-> "LinAlgError", line |-> 169]
     ELSE [status |-> "ok",
           MI |-> NegHalfSumLog(<<Det(MatSub(Eye(dim), MatMul(Bxy, Byx)))>>)]

\* (variant: the covariance is jittered with one normal variate first)
ComputeGaussianMIDraws(st, call) ==
  LET r == GaussianMI(call.args.cov_matrix, call.args.dim)
      g == GeneratorOf(call.self)
  IN [st |-> [st EXCEPT !.rng = [@ EXCEPT ![g] = StateAfter(@, 1)]],
      out |-> IF r.status = "ok"
                THEN Returned(call, r.MI, [held |-> call.args.cov_matrix])
                ELSE Raised(call, r.exc, r.line)]

\* The method: no draw, no write to the process; the caller's array is only
\* read (slices are views, linalg.inv works on a copy), so it is handed back
\* as it came in (held).
ComputeGaussianMI(st, call) ==
  LET r == GaussianMI(call.args.cov_matrix, call.args.dim)
  IN [st |-> st,
      out |-> IF r.status = "ok"
                THEN Returned(call, r.MI, [held |-> call.args.cov_matrix])
                ELSE Raised(call, r.exc, r.line)]

\* ------------------------------------------------------- estimate_mvn_mi
\* np.cov(data): rows are variables, columns observations, normalised by
\* n - 1; with fewer than two observations every entry is nan.
NpCov(data) ==
  LET r == Rows(data)
      n == Cols(data)
      mean == [i \in 1..r |-> RDiv(RSum([j \in 1..n |-> RInt(data[i][j])]), RInt(n))]
      x == [i \in 1..r |-> [j \in 1..n |-> RSub(RInt(data[i][j]), mean[i])]]
      xxT == MatMul(x, Transpose(x, r, n))
  IN IF n < 2 THEN NaNArray(r)
     ELSE Array([i \in 1..r |-> [j \in 1..r |-> RDiv(xxT[i][j], RInt(n - 1))]])

\* lines 193-198
EstimateMvnMI(st, call) ==
  LET Chat == NpCov(call.args.data)
      dim == Rows(Chat.m) \div 2
      r == GaussianMI(Chat, dim)
  IN [st |-> st,
      out |-> IF r.status = "ok"
                THEN Returned(call, r.MI, [held |-> call.args.data])
                ELSE Raised(call, r.exc, r.line)]

\* ------------------------------------------------------------- inputs
Dims == -1..MaxDim
SampleCounts == -1..MaxSamples
RhozLims == {<<RZero, ROne>>, <<Half, ROne>>, <<RZero, RZero>>, <<ROne, Rat(3, 2)>>}
CondPairs == {<<7, 7>>, <<7, 0>>}
Conds == {0, 1, 7}

\* joint covariance matrices of (x, y) with dim = 1, as a caller may pass them
CovInputs ==
  {<<<<2, 1>>, <<1, 2>>>>, <<<<0, 0>>, <<0, 1>>>>, <<<<1, 0>>, <<0, 0>>>>,
   <<<<1, 1>>, <<1, 1>>>>, <<<<1, 2>>, <<2, 1>>>>}

\* data matrices of shape (2, n_samples)
DataInputs ==
  {<<<<1, -1>>, <<1, -1>>>>, <<<<1, 0, -1>>, <<0, 1, 0>>>>,
   <<<<1, 1>>, <<0, 1>>>>, <<<<1>>, <<2>>>>}

\* the arguments the documentation of generate_example allows
ValidLims(l) == RLeq(RZero, l[1]) /\ RLess(l[1], l[2]) /\ RLeq(l[2], ROne)
ValidGE(a) ==
  /\ a.dim >= 1 /\ a.n_samples >= 1 /\ ValidLims(a.rhoz_lims)
  /\ a.cond[1] >= 1 /\ a.cond[2] >= 1

\* ---------------------------------------------- the caller's reconstruction
\* The joint covariance of (data_x, data_y) for a result of generate_example:
\* the blocks sigma_xx and sigma_yy of gen_params, and the cross block
\* A @ diag(rhoz) @ B.T with A, B the colouring matrices
\* eigenvectors @ diag(sqrt(spectrum)) of the two sides.
IsSquare(q) == \E k \in 0..q.n : k * k = q.n /\ \E l \in 1..q.d : l * l = q.d
RSqrt(q) == Rat(CHOOSE k \in 0..q.n : k * k = q.n, CHOOSE l \in 1..q.d : l * l = q.d)

Reconstructible(o) ==
  /\ o.op = "generate_example" /\ o.status = "ok" /\ o.args.dim >= 1
  /\ \A k \in 1..o.args.dim :
       /\ RLeq(RZero, o.ghost.x.spectrum[k]) /\ IsSquare(o.ghost.x.spectrum[k])
       /\ RLeq(RZero, o.ghost.y.spectrum[k]) /\ IsSquare(o.ghost.y.spectrum[k])

JointCov(o) ==
  LET d == o.args.dim
      gp == o.value.gen_params
      root(s) == [k \in 1..d |-> RSqrt(s[k])]
      A == MatMul(o.ghost.x.eigenvectors, Diag(root(o.ghost.x.spectrum)))
      B == MatMul(o.ghost.y.eigenvectors, Diag(root(o.ghost.y.spectrum)))
      xy == MatMul(MatMul(A, Diag(gp.rhoz)), Transpose(B, d, d))
  IN [i \in 1..(2 * d) |-> [j \in 1..(2 * d) |->
        IF i <= d /\ j <= d THEN gp.sigma_xx[i][j]
        ELSE IF i <= d THEN xy[i][j - d]
        ELSE IF j <= d THEN xy[j][i - d]
        ELSE gp.sigma_yy[i - d][j - d]]]

\* -------------------------------------------------------------- the system
VARIABLES
  run,         \* the process under observation
  ref,         \* the reference process: same seed, replays run's calls
  out,         \* what the last call returned to its caller, per process
  turn,        \* which process moves: ref replays once run's call is over
  roundsDown   \* whether this build's eigensolver rounds a zero minimum down

vars == <<run, ref, out, turn, roundsDown>>

Call(op, self, args, st) == [op |-> op, self |-> self, args |-> args, entry |-> st.rng]

Enter(st, call) ==
  CASE call.op = "generate_example" -> GenerateExampleEnter(st, call)
    [] call.op = "sample_cov_matrix" -> SampleCovMatrixEnter(st, call)
    [] call.op = "compute_gaussian_mi" -> ComputeGaussianMI(st, call)
    [] call.op = "estimate_mvn_mi" -> EstimateMvnMI(st, call)

Init ==
  \E seed \in Seeds, e1 \in EntropyStates, e2 \in EntropyStates, rd \in BOOLEAN :
    /\ run = GaussianInit(FreshProcess(e1), seed)
    /\ ref = GaussianInit(FreshProcess(e2), seed)
    /\ out = [run |-> NoOutput, ref |-> NoOutput]
    /\ turn = "run"
    /\ roundsDown = rd

RunIdle == turn = "run" /\ run.pc = "idle"
Fresh == RunIdle /\ out.run.op = "none"

RunBegins(r) ==
  /\ run' = r.st
  /\ out' = [run |-> r.out, ref |-> NoOutput]
  /\ turn' = IF r.st.pc = "idle" THEN "ref" ELSE "run"
  /\ UNCHANGED <<ref, roundsDown>>

RunGoesOn(r) ==
  /\ run' = r.st
  /\ out' = [out EXCEPT !.run = r.out]
  /\ turn' = IF r.st.pc = "idle" THEN "ref" ELSE "run"
  /\ UNCHANGED <<ref, roundsDown>>

RefGoesOn(r) ==
  /\ ref' = r.st
  /\ out' = [out EXCEPT !.ref = r.out]
  /\ turn' = IF r.st.pc = "idle" THEN "run" ELSE "ref"
  /\ UNCHANGED <<run, roundsDown>>

\* Another Gaussian(seed) is constructed in the running process; the
\* reference becomes a new process in which Gaussian(seed) is the only object.
Construct(seed) ==
  /\ Fresh
  /\ Len(run.objs) < MaxInstances
  /\ run' = GaussianInit(run, seed)
  /\ \E e \in EntropyStates : ref' = GaussianInit(FreshProcess(e), seed)
  /\ out' = [run |-> NoOutput, ref |-> NoOutput]
  /\ UNCHANGED <<turn, roundsDown>>

CallGenerateExample(self, dim, n, lims, cond) ==
  /\ Fresh
  /\ RunBegins(Enter(run, Call("generate_example", self,
        [dim |-> dim, n_samples |-> n, rhoz_lims |-> lims, cond |-> cond], run)))

CallSampleCovMatrix(self, dim, cond) ==
  /\ Fresh
  /\ RunBegins(Enter(run, Call("sample_cov_matrix", self,
        [dim |-> dim, cond |-> cond], run)))

CallComputeGaussianMI(self, cov) ==
  /\ Fresh
  /\ RunBegins(Enter(run, Call("compute_gaussian_mi", self,
        [cov_matrix |-> Array(IntMatrix(cov)), dim |-> 1, roundtrip |-> FALSE], run)))

\* compute_gaussian_mi on the joint covariance reconstructed from the
\* result generate_example has just returned for valid arguments
CallRoundTrip(self) ==
  /\ RunIdle
  /\ Reconstructible(out.run) /\ ValidGE(out.run.args)
  /\ RunBegins(Enter(run, Call("compute_gaussian_mi", self,
        [cov_matrix |-> Array(JointCov(out.run)), dim |-> out.run.args.dim,
         roundtrip |-> TRUE, MI |-> out.run.value.MI], run)))

CallEstimateMvnMI(self, data) ==
  /\ Fresh
  /\ RunBegins(Enter(run, Call("estimate_mvn_mi", self, [data |-> data], run)))

\* The caller is done with what the last call returned.
Discard ==
  /\ RunIdle
  /\ out.run.op # "none"
  /\ out' = [run |-> NoOutput, ref |-> NoOutput]
  /\ UNCHANGED <<run, ref, turn, roundsDown>>

RunLoop ==
  /\ turn = "run" /\ run.pc = "loop" /\ LoopTest(run.fr.mini)
  /\ RunGoesOn(SampleCovLoop(run, roundsDown))

RunExit ==
  /\ turn = "run" /\ run.pc = "loop" /\ ~LoopTest(run.fr.mini)
  /\ RunGoesOn(SampleCovExit(run))

\* The reference issues the call run has just completed, through its object.
RefReplay ==
  /\ turn = "ref" /\ ref.pc = "idle"
  /\ RefGoesOn(Enter(ref, Call(out.run.op, 1, out.run.args, ref)))

RefLoop ==
  /\ turn = "ref" /\ ref.pc = "loop" /\ LoopTest(ref.fr.mini)
  /\ RefGoesOn(SampleCovLoop(ref, roundsDown))

RefExit ==
  /\ turn = "ref" /\ ref.pc = "loop" /\ ~LoopTest(ref.fr.mini)
  /\ RefGoesOn(SampleCovExit(ref))

Next ==
  \/ \E seed \in Seeds : Construct(seed)
  \/ \E self \in 1..Len(run.objs), dim \in Dims, n \in SampleCounts,
        lims \in RhozLims, cond \in CondPairs :
        CallGenerateExample(self, dim, n, lims, cond)
  \/ \E self \in 1..Len(run.objs), dim \in Dims, cond \in Conds :
        CallSampleCovMatrix(self, dim, cond)
  \/ \E self \in 1..Len(run.objs), cov \in CovInputs : CallComputeGaussianMI(self, cov)
  \/ \E self \in 1..Len(run.objs) : CallRoundTrip(self)
  \/ \E self \in 1..Len(run.objs), data \in DataInputs : CallEstimateMvnMI(self, data)
  \/ Discard
  \/ RunLoop
  \/ RunExit
  \/ RefReplay
  \/ RefLoop
  \/ RefExit

Spec == Init /\ [][Next]_vars

\* -------------------------------------------------------------- claims
Sampling == {"generate_example", "sample_cov_matrix"}
NonSampling == {"compute_gaussian_mi", "estimate_mvn_mi"}

\* both processes have completed the current call
BothDone == turn = "run" /\ out.run.op # "none" /\ out.ref.op # "none"

\* what a caller sees of a call: its result, or the exception raised
Observable(o) ==
  IF o.status = "ok" THEN <<o.op, o.args, "ok", o.value>>
  ELSE <<o.op, o.args, "error", o.exc>>

GEReturned(o) == o.op = "generate_example" /\ o.status = "ok"
SCMReturned(o) == o.op = "sample_cov_matrix" /\ o.status = "ok"

\* C1: two runs that construct Gaussian(seed) and issue the same calls with
\* the same arguments return the same thing at every call, and their
\* streams are in the same state after it.
C1_Determinism ==
  (BothDone /\ Len(run.objs) = 1) =>
     /\ Observable(out.ref) = Observable(out.run)
     /\ ref.rng[Global] = run.rng[Global]

\* C1 witness: a generate_example that is not the first call after the seed
\* has returned in both runs.
C1_Witness ==
  /\ BothDone /\ Len(run.objs) = 1 /\ GEReturned(out.run)
  /\ out.run.args.dim = 2 /\ out.run.args.n_samples = 2
  /\ \A s \in Seeds : out.run.entry[Global] # SeedState(s)

InvalidArgs(o) ==
  \/ o.args.dim <= 0
  \/ /\ o.op = "generate_example"
     /\ \/ o.args.n_samples <= 0
        \/ \E i \in 1..2 : RLess(o.args.rhoz_lims[i], RZero) \/ RLess(ROne, o.args.rhoz_lims[i])
        \/ \E i \in 1..2 : o.args.cond[i] < 1

C3_InvalidArgumentRaises ==
  (out.run.op \in Sampling /\ InvalidArgs(out.run)) =>
     /\ out.run.status = "error"
     /\ run.rng = out.run.entry

\* C4 (as claimed): compute_gaussian_mi and estimate_mvn_mi raise when a
\* diagonal block is singular or det(I - Bxy Byx) <= 0, and never return a
\* value that is nan or infinite.
CovOf(o) ==
  IF o.op = "estimate_mvn_mi" THEN NpCov(o.args.data) ELSE o.args.cov_matrix
DimOf(o) ==
  IF o.op = "estimate_mvn_mi" THEN Rows(o.args.data) \div 2 ELSE o.args.dim

Degenerate(cov, dim) ==
  LET sigma_xx == Block(cov.m, 1, dim, 1, dim)
      sigma_xy == Block(cov.m, 1, dim, dim + 1, 2 * dim)
      sigma_yy == Block(cov.m, dim + 1, 2 * dim, dim + 1, 2 * dim)
  IN \/ Det(sigma_xx) = RZero
     \/ Det(sigma_yy) = RZero
     \/ RLeq(Det(MatSub(Eye(dim),
               MatMul(MatMul(Inverse(sigma_xx), sigma_xy),
                      MatMul(Inverse(sigma_yy), Transpose(sigma_xy, dim, dim))))), RZero)

C4_NumericalErrorRaised ==
  (out.run.op \in NonSampling /\ CovOf(out.run).finite
     /\ Degenerate(CovOf(out.run), DimOf(out.run))) =>
     out.run.status = "error"

\* C5: with rhoz_lims = (0, 0) generate_example returns, every entry of rhoz is
\* zero, MI is 0 (-0.5 * log 1), and every entry of zy is the noise draw
\* alone: 0 from zx plus sqrt(1) times the noise.
C5_ZeroCorrelation ==
  (out.run.op = "generate_example" /\ out.run.args.rhoz_lims = <<RZero, RZero>>
     /\ out.run.args.dim >= 1 /\ out.run.args.n_samples >= 1) =>
     /\ out.run.status = "ok"
     /\ \A i \in 1..out.run.args.dim : out.run.value.gen_params.rhoz[i] = RZero
     /\ out.run.value.MI = Finite(ROne)
     /\ \A k \in 1..out.run.args.dim : \A j \in 1..out.run.args.n_samples :
          /\ out.run.ghost.zy[k][j].lin = RZero
          /\ out.run.ghost.zy[k][j].rad = ROne
          /\ \A i \in 1..out.run.args.dim :
               out.run.value.data_y[i][j][k].z = out.run.ghost.zy[k][j]

\* C5 witness: such a call has returned with some zx and some noise non-zero.
C5_Witness ==
  /\ GEReturned(out.run) /\ out.run.args.rhoz_lims = <<RZero, RZero>>
  /\ out.run.args.dim = 2 /\ out.run.args.n_samples = 2
  /\ \E k \in 1..2, j \in 1..2 :
       out.run.ghost.zx[k][j] # 0 /\ out.run.ghost.zy[k][j].noise # 0

\* C6: compute_gaussian_mi on the joint covariance reconstructed from a
\* result of generate_example with valid arguments returns normally, and it
\* returns the MI that generate_example returned.  (The reconstruction is
\* taken where the square roots of both spectra are rational.)
C6_RoundTrip ==
  (out.run.op = "compute_gaussian_mi" /\ out.run.args.roundtrip) =>
     /\ out.run.status = "ok"
     /\ out.run.value = out.run.args.MI

\* C6 witness: a round trip with dim = 2, two different correlations and MI > 0.
C6_Witness ==
  /\ out.run.op = "compute_gaussian_mi" /\ out.run.args.roundtrip
  /\ out.run.status = "ok" /\ out.run.args.dim = 2
  /\ out.run.value.kind = "finite" /\ RLess(out.run.value.arg, ROne)
  /\ out.run.args.cov_matrix.m[1][4] # out.run.args.cov_matrix.m[2][3]

\* C7: for dim >= 1 and cond >= 1 the spectrum has dim entries, is sorted in
\* non-increasing order and lies in [1, cond]; cov_matrix is built from it,
\* and in generate_example term k of every data entry carries spectrum[k].
SpectrumOk(r, dim, cond) ==
  /\ Len(r.spectrum) = dim
  /\ \A k \in 1..(dim - 1) : RLeq(r.spectrum[k + 1], r.spectrum[k])
  /\ \A k \in 1..dim : RLeq(ROne, r.spectrum[k]) /\ RLeq(r.spectrum[k], RInt(cond))
  /\ r.cov_matrix = MatMul(MatMul(r.eigenvectors, Diag(r.spectrum)),
                           Transpose(r.eigenvectors, dim, dim))

Coloured(data, r, dim, n) ==
  \A i \in 1..dim : \A j \in 1..n : \A k \in 1..dim :
     data[i][j][k].rad = r.spectrum[k] /\ data[i][j][k].v = r.eigenvectors[i][k]

C7_Spectrum ==
  /\ (SCMReturned(out.run) /\ out.run.args.dim >= 1 /\ out.run.args.cond >= 1) =>
        /\ SpectrumOk(out.run.ghost.scm, out.run.args.dim, out.run.args.cond)
        /\ out.run.value.spectrum = out.run.ghost.scm.spectrum
        /\ out.run.value.cov_matrix = out.run.ghost.scm.cov_matrix
  /\ (GEReturned(out.run) /\ out.run.args.dim >= 1 /\ out.run.args.n_samples >= 0) =>
        /\ out.run.args.cond[1] >= 1 =>
             /\ SpectrumOk(out.run.ghost.x, out.run.args.dim, out.run.args.cond[1])
             /\ out.run.value.gen_params.sigma_xx = out.run.ghost.x.cov_matrix
        /\ out.run.args.cond[2] >= 1 =>
             /\ SpectrumOk(out.run.ghost.y, out.run.args.dim, out.run.args.cond[2])
             /\ out.run.value.gen_params.sigma_yy = out.run.ghost.y.cov_matrix
        /\ Coloured(out.run.value.data_x, out.run.ghost.x,
                    out.run.args.dim, out.run.args.n_samples)
        /\ Coloured(out.run.value.data_y, out.run.ghost.y,
                    out.run.args.dim, out.run.args.n_samples)

\* C7 witness: generate_example has returned with a spectrum of two
\* different values on the x side.
C7_Witness ==
  /\ GEReturned(out.run) /\ out.run.args.dim = 2 /\ out.run.args.n_samples = 2
  /\ out.run.args.cond[1] >= 1
  /\ RLess(out.run.ghost.x.spectrum[2], out.run.ghost.x.spectrum[1])

\* C8: a call of sample_cov_matrix left its loop after at least one draw, at
\* the first draw whose minimum eigenvalue was not negative, with the
\* eigenvectors of that draw and the stream as that draw left it; and a call
\* in the loop leaves it within MaxTries draws (it always has a next step:
\* the body while the test holds, the return once it fails).
Accepted(r) ==
  LET m == IntMatrix(r.M)
      mmt == MatMul(m, Transpose(m, Rows(m), Rows(m)))
  IN /\ r.tries >= 1
     /\ r.nonneg = 1
     /\ r.mini >= 0
     /\ r.mini = EighMinSign(mmt, roundsDown)
     /\ r.eigenvectors = EighVectors(mmt)

C9_NonSamplingFrame ==
  (out.run.op \in NonSampling) =>
     /\ run.rng = out.run.entry
     /\ run.pc = "idle"
     /\ out.run.status = "ok" =>
          out.run.ghost.held = (IF out.run.op = "estimate_mvn_mi"
                                  THEN out.run.args.data ELSE out.run.args.cov_matrix)

\* C9 witness: estimate_mvn_mi, and compute_gaussian_mi inside it, has
\* returned a value in the middle of a sequence of calls.
C9_Witness ==
  /\ out.run.op = "estimate_mvn_mi" /\ out.run.status = "ok"
  /\ \A s \in Seeds : out.run.entry[Global] # SeedState(s)

\* C10: no object owns a generator (self.seed is None); whatever object a
\* call is made through, and whatever was called before another
\* Gaussian(s) was constructed, the call returns what the same sequence of
\* calls returns in a process where Gaussian(s) is the only object.
C10_SharedStream ==
  /\ \A i \in 1..Len(run.objs) : run.objs[i].seed = None /\ run.rng[i] = NoGenerator
  /\ BothDone =>
       /\ Observable(out.ref) = Observable(out.run)
       /\ ref.rng[Global] = run.rng[Global]

\* C10 witness: with two objects, a sampling call through the older one has
\* returned, and it was not the first call since the stream was seeded.
C10_Witness ==
  /\ BothDone /\ Len(run.objs) = 2 /\ out.run.self = 1
  /\ GEReturned(out.run) /\ out.run.args.dim = 2 /\ out.run.args.n_samples = 1
  /\ \A s \in Seeds : out.run.entry[Global] # SeedState(s)

=============================================================================
